---- MODULE Spec2Model ----
(***************************************************************************)
(* Ball-Game: the physics core of the ball simulation.                     *)
(*   Vector2D       src/unnamed/part_001 (lines 206-375)                   *)
(*   Ball           src/unnamed/part_002                                   *)
(*   Engine         src/unnamed/part_000 (lines 1-195)                     *)
(*   PhysicsSystem  src/src/main.js     (lines 1-201)                      *)
(*   Quadtree       src/src/utils/Quadtree.js                              *)
(*                                                                         *)
(* JavaScript numbers are modelled as exact rationals <<n, d>> in lowest   *)
(* terms with d > 0.  Math.sqrt is exact on squares of rationals and is    *)
(* truncated to a multiple of 1/SqrtDen otherwise.                         *)
(***************************************************************************)
EXTENDS Integers, Sequences, FiniteSets, TLC

(***************************************************************************)
(* Bounds of the model.                                                    *)
(***************************************************************************)
MaxBalls == 2
MaxTicks == 2
MaxPasses == 2
MaxPhysBalls == 3
SqrtDen == 10
MaxDen == 10
MaxInserts == 3
MaxCapacity == 2
MaxTreeDepth == 2
\* largest acceleration component applyForce builds up on one ball
MaxAcceleration == 100
\* time of the last animation frame explored, in milliseconds
MaxClock == 400

(***************************************************************************)
(* Numbers.                                                                *)
(***************************************************************************)
Abs(a) == IF a < 0 THEN -a ELSE a

RECURSIVE GCD(_, _)
GCD(a, b) == IF b = 0 THEN a ELSE GCD(b, a % b)

Rat(n, d) ==
    LET g == GCD(Abs(n), Abs(d))
        s == IF d < 0 THEN -1 ELSE 1
    IN  <<(s * n) \div g, (s * d) \div g>>

R(n) == <<n, 1>>
Zero == <<0, 1>>

RAdd(a, b) ==
    LET g == GCD(a[2], b[2])
    IN  Rat(a[1] * (b[2] \div g) + b[1] * (a[2] \div g), (a[2] \div g) * b[2])
RNeg(a) == <<-a[1], a[2]>>
RSub(a, b) == RAdd(a, RNeg(b))
RMul(a, b) ==
    LET g1 == GCD(Abs(a[1]), b[2])
        g2 == GCD(Abs(b[1]), a[2])
    IN  Rat((a[1] \div g1) * (b[1] \div g2), (a[2] \div g2) * (b[2] \div g1))
RDiv(a, b) == RMul(a, Rat(b[2], b[1]))
RLt(a, b) == a[1] * b[2] < b[1] * a[2]
RLe(a, b) == a[1] * b[2] <= b[1] * a[2]
RGt(a, b) == RLt(b, a)
RGe(a, b) == RLe(b, a)

RECURSIVE ISqrtSearch(_, _, _)
ISqrtSearch(n, lo, hi) ==
    \* largest k in lo..hi-1 with k*k <= n
    IF hi - lo <= 1 THEN lo
    ELSE LET m == (lo + hi) \div 2
         IN  IF m * m <= n THEN ISqrtSearch(n, m, hi) ELSE ISqrtSearch(n, lo, m)
ISqrt(n) == ISqrtSearch(n, 0, (IF n < 46340 THEN n ELSE 46340) + 1)

\* Math.sqrt
Sqrt(q) ==
    LET sn == ISqrt(q[1])
        sd == ISqrt(q[2])
    IN  IF sn * sn = q[1] /\ sd * sd = q[2]
        THEN <<sn, sd>>
        ELSE Rat(ISqrt((q[1] * SqrtDen * SqrtDen) \div q[2]), SqrtDen)

(***************************************************************************)
(* Config (src/unnamed/part_001, lines 108-205).                           *)
(***************************************************************************)
maxVelocity == 500
minSize == 5
maxSize == 100
defaultSize == 20
defaultGravity == Rat(98, 10)
deltaTimeMax == Rat(1, 10)

(***************************************************************************)
(* Vector2D.                                                               *)
(***************************************************************************)
Vec(x, y) == [x |-> x, y |-> y]
VecI(x, y) == Vec(R(x), R(y))

Vector2D_add(v, w) == Vec(RAdd(v.x, w.x), RAdd(v.y, w.y))
Vector2D_subtract(v, w) == Vec(RSub(v.x, w.x), RSub(v.y, w.y))
Vector2D_multiply(v, scalar) == Vec(RMul(v.x, scalar), RMul(v.y, scalar))
\* divide throws on a zero scalar and then leaves the receiver as it was
Vector2D_divideThrows(scalar) == scalar = Zero
\* a divide that zeroes the receiver before it throws
Vector2D_divide_zeroing(v, scalar) ==
    IF Vector2D_divideThrows(scalar) THEN Vec(Zero, Zero)
    ELSE Vec(RDiv(v.x, scalar), RDiv(v.y, scalar))

Vector2D_divide(v, scalar) ==
    IF Vector2D_divideThrows(scalar) THEN v
    ELSE Vec(RDiv(v.x, scalar), RDiv(v.y, scalar))
Vector2D_magnitudeSquared(v) == RAdd(RMul(v.x, v.x), RMul(v.y, v.y))
Vector2D_magnitude(v) == Sqrt(Vector2D_magnitudeSquared(v))
Vector2D_normalize(v) ==
    LET mag == Vector2D_magnitude(v)
    IN  IF RGt(mag, Zero) THEN Vector2D_divide(v, mag) ELSE v
Vector2D_dot(v, w) == RAdd(RMul(v.x, w.x), RMul(v.y, w.y))
Vector2D_distance(v, w) ==
    LET dx == RSub(v.x, w.x)
        dy == RSub(v.y, w.y)
    IN  Sqrt(RAdd(RMul(dx, dx), RMul(dy, dy)))
\* a limit that leaves every vector as it is
Vector2D_limit_off(v, max) == v

Vector2D_limit(v, max) ==
    LET magSq == Vector2D_magnitudeSquared(v)
    IN  IF RGt(magSq, RMul(max, max))
        THEN Vector2D_multiply(Vector2D_normalize(v), max)
        ELSE v

(***************************************************************************)
(* Ball.                                                                   *)
(***************************************************************************)
\* options: [x, y, vx, vy, size, gravity] with integer entries; size 0
\* stands for an absent (or zero) options.size
Ball_constructor(id, options) ==
    LET size == IF options.size # 0 THEN options.size ELSE defaultSize
    IN  [id           |-> id,
         position     |-> VecI(options.x, options.y),
         velocity     |-> VecI(options.vx, options.vy),
         acceleration |-> VecI(0, 0),
         size         |-> R(size),
         gravity      |-> R(options.gravity),
         mass         |-> R(size * size),
         isFrozen     |-> FALSE]

\* an update that clears the acceleration of a frozen ball
Ball_update_frozenReset(ball, deltaTime) ==
    IF ball.isFrozen THEN [ball EXCEPT !.acceleration = VecI(0, 0)]
    ELSE
      LET acc == IF ball.gravity # Zero
                 THEN Vec(ball.acceleration.x, ball.gravity)
                 ELSE ball.acceleration
          v1  == Vector2D_add(ball.velocity,
                     Vec(RMul(acc.x, deltaTime), RMul(acc.y, deltaTime)))
          v2  == Vector2D_limit(v1, R(maxVelocity))
          p   == Vector2D_add(ball.position,
                     Vec(RMul(v2.x, deltaTime), RMul(v2.y, deltaTime)))
      IN  [ball EXCEPT !.velocity = v2, !.position = p,
                       !.acceleration = VecI(0, 0)]

\* an update that adds gravity to the y-acceleration already there
Ball_update_accumulating(ball, deltaTime) ==
    IF ball.isFrozen THEN ball
    ELSE
      LET acc == IF ball.gravity # Zero
                 THEN Vec(ball.acceleration.x, RAdd(ball.acceleration.y, ball.gravity))
                 ELSE ball.acceleration
          v1  == Vector2D_add(ball.velocity,
                     Vec(RMul(acc.x, deltaTime), RMul(acc.y, deltaTime)))
          v2  == Vector2D_limit(v1, R(maxVelocity))
          p   == Vector2D_add(ball.position,
                     Vec(RMul(v2.x, deltaTime), RMul(v2.y, deltaTime)))
      IN  [ball EXCEPT !.velocity = v2, !.position = p,
                       !.acceleration = VecI(0, 0)]

Ball_update(ball, deltaTime) ==
    IF ball.isFrozen THEN ball
    ELSE
      LET acc == IF ball.gravity # Zero
                 THEN Vec(ball.acceleration.x, ball.gravity)
                 ELSE ball.acceleration
          v1  == Vector2D_add(ball.velocity,
                     Vec(RMul(acc.x, deltaTime), RMul(acc.y, deltaTime)))
          v2  == Vector2D_limit(v1, R(maxVelocity))
          p   == Vector2D_add(ball.position,
                     Vec(RMul(v2.x, deltaTime), RMul(v2.y, deltaTime)))
      IN  [ball EXCEPT !.velocity = v2, !.position = p,
                       !.acceleration = VecI(0, 0)]

\* applyForce(force): a = F / m is added to the acceleration, frozen or not
Ball_applyForce(ball, force) ==
    [ball EXCEPT !.acceleration =
        Vector2D_add(ball.acceleration, Vector2D_divide(force, ball.mass))]

Ball_isCollidingWith(ball, other) ==
    LET dist == Vector2D_distance(ball.position, other.position)
        minDistance == RAdd(ball.size, other.size)
    IN  RLt(dist, minDistance)

\* freeze() sets isFrozen and the velocity, then raises a ReferenceError
\* while evaluating the arguments of acceleration.set(0, a,0)
\* the identifier a in this.acceleration.set(0, a,0) is declared nowhere
Ball_freezeThrows == TRUE
Ball_freeze(ball) == [ball EXCEPT !.isFrozen = TRUE, !.velocity = VecI(0, 0)]
Ball_unfreeze(ball) == [ball EXCEPT !.isFrozen = FALSE]

(***************************************************************************)
(* PhysicsSystem.                                                          *)
(***************************************************************************)
\* areColliding with <= in place of <
areColliding_inclusive(ballA, ballB) ==
    LET dist == Vector2D_distance(ballA.position, ballB.position)
        minDistance == RAdd(ballA.size, ballB.size)
    IN  RLe(dist, minDistance)

PhysicsSystem_areColliding(ballA, ballB) ==
    LET dist == Vector2D_distance(ballA.position, ballB.position)
        minDistance == RAdd(ballA.size, ballB.size)
    IN  RLt(dist, minDistance)

\* an inner loop that starts at the first ball
innerStart_first(i) == 1

\* first index of the inner loop: for (let j = i + 1; ...)
innerStart(i) == i + 1

\* the inner loop of generateCollisionPairs from index j on; pairs are
\* recorded by the ids of the two ball objects
RECURSIVE innerLoop(_, _, _, _)
innerLoop(bs, i, j, pairs) ==
    IF j > Len(bs) THEN pairs
    ELSE IF bs[j].isFrozen THEN innerLoop(bs, i, j + 1, pairs)
    ELSE IF PhysicsSystem_areColliding(bs[i], bs[j])
         THEN innerLoop(bs, i, j + 1, Append(pairs, <<bs[i].id, bs[j].id>>))
         ELSE innerLoop(bs, i, j + 1, pairs)

RECURSIVE outerLoop(_, _, _)
outerLoop(bs, i, pairs) ==
    IF i > Len(bs) THEN pairs
    ELSE IF bs[i].isFrozen THEN outerLoop(bs, i + 1, pairs)
    ELSE outerLoop(bs, i + 1, innerLoop(bs, i, innerStart(i), pairs))

PhysicsSystem_generateCollisionPairs(bs) == outerLoop(bs, 1, <<>>)

\* a perfectly elastic collision
restitution_elastic == R(1)

restitution == Rat(8, 10)
friction == Rat(5, 100)

\* if (!ball.isFrozen) ball.position.subtract(v) / .add(v)
separateA(ballA, v) ==
    IF ~ballA.isFrozen
    THEN [ballA EXCEPT !.position = Vector2D_subtract(ballA.position, v)]
    ELSE ballA

\* a separation that moves ballB by half of its share
separateB_half(ballB, v) ==
    IF ~ballB.isFrozen
    THEN [ballB EXCEPT !.position =
              Vector2D_add(ballB.position, Vector2D_multiply(v, Rat(1, 2)))]
    ELSE ballB

separateB(ballB, v) ==
    IF ~ballB.isFrozen
    THEN [ballB EXCEPT !.position = Vector2D_add(ballB.position, v)]
    ELSE ballB
\* impulseA that subtracts the impulse without dividing it by the mass
impulseA_undivided(ballA, imp) ==
    IF ~ballA.isFrozen
    THEN [ballA EXCEPT !.velocity = Vector2D_subtract(ballA.velocity, imp)]
    ELSE ballA

\* if (!ball.isFrozen) ball.velocity.subtract(imp.clone().divide(ball.mass))
impulseA(ballA, imp) ==
    IF ~ballA.isFrozen
    THEN [ballA EXCEPT !.velocity =
              Vector2D_subtract(ballA.velocity, Vector2D_divide(imp, ballA.mass))]
    ELSE ballA
\* impulseB without the isFrozen test
impulseB_unguarded(ballB, imp) ==
    [ballB EXCEPT !.velocity =
         Vector2D_add(ballB.velocity, Vector2D_divide(imp, ballB.mass))]

impulseB(ballB, imp) ==
    IF ~ballB.isFrozen
    THEN [ballB EXCEPT !.velocity =
              Vector2D_add(ballB.velocity, Vector2D_divide(imp, ballB.mass))]
    ELSE ballB

\* The steps of resolveCollision, each handing the values it has computed to
\* the next; every result is the pair <<ballA, ballB>> after the call.

\* if (!ballA.isFrozen) ballA.velocity.subtract(..); if (!ballB.isFrozen) ..add(..)
applyImpulse(ballA, ballB, imp) == << impulseA(ballA, imp), impulseB(ballB, imp) >>

\* friction (tangential component)
resolveFriction(ballA, ballB, relativeVelocity, normal, invMass) ==
    LET tangent == Vec(RNeg(normal.y), normal.x)
        velocityAlongTangent == Vector2D_dot(relativeVelocity, tangent)
        jt == RDiv(RMul(RNeg(velocityAlongTangent), friction), invMass)
    IN  applyImpulse(ballA, ballB, Vector2D_multiply(tangent, jt))

\* resolveVelocities without the return for balls that move apart
resolveVelocities_noSeparatingReturn(ballA, ballB, relativeVelocity, velocityAlongNormal, normal, invMass) ==
    IF ballA.isFrozen /\ ballB.isFrozen THEN <<ballA, ballB>>
    ELSE LET j == RDiv(RMul(RNeg(RAdd(R(1), restitution)), velocityAlongNormal),
                       invMass)
             r == applyImpulse(ballA, ballB, Vector2D_multiply(normal, j))
         IN  resolveFriction(r[1], r[2], relativeVelocity, normal, invMass)

\* the two early returns, then the impulse along the normal
resolveVelocities(ballA, ballB, relativeVelocity, velocityAlongNormal, normal, invMass) ==
    IF ballA.isFrozen /\ ballB.isFrozen THEN <<ballA, ballB>>
    ELSE IF RGt(velocityAlongNormal, Zero) THEN <<ballA, ballB>>
    ELSE LET j == RDiv(RMul(RNeg(RAdd(R(1), restitution)), velocityAlongNormal),
                       invMass)
             r == applyImpulse(ballA, ballB, Vector2D_multiply(normal, j))
         IN  resolveFriction(r[1], r[2], relativeVelocity, normal, invMass)

\* overlap and separation of the positions
resolveSeparation(ballA, ballB, distance, normal) ==
    LET overlap   == RSub(RAdd(ballA.size, ballB.size), distance)
        totalMass == RAdd(ballA.mass, ballB.mass)
        ratioA    == RDiv(ballB.mass, totalMass)
        ratioB    == RDiv(ballA.mass, totalMass)
        relativeVelocity == Vec(RSub(ballB.velocity.x, ballA.velocity.x),
                                RSub(ballB.velocity.y, ballA.velocity.y))
    IN  resolveVelocities(
            separateA(ballA, Vector2D_multiply(normal, RMul(overlap, ratioA))),
            separateB(ballB, Vector2D_multiply(normal, RMul(overlap, ratioB))),
            relativeVelocity,
            Vector2D_dot(relativeVelocity, normal),
            normal,
            RAdd(RDiv(R(1), ballA.mass), RDiv(R(1), ballB.mass)))

\* a resolveNormal that takes (0, 1) when the centres coincide
resolveNormal_yAxis(ballA, ballB, d, distance) ==
    resolveSeparation(ballA, ballB, distance,
                      IF distance = Zero THEN VecI(0, 1) ELSE Vector2D_normalize(d))

\* normal.set(1, 0) when the centres coincide, normal.normalize() otherwise
resolveNormal(ballA, ballB, d, distance) ==
    resolveSeparation(ballA, ballB, distance,
                      IF distance = Zero THEN VecI(1, 0) ELSE Vector2D_normalize(d))

PhysicsSystem_resolveCollision(ballA, ballB) ==
    LET d == Vec(RSub(ballB.position.x, ballA.position.x),
                 RSub(ballB.position.y, ballA.position.y))
    IN  resolveNormal(ballA, ballB, d, Vector2D_magnitude(d))

\* index in bs of the ball object with the given id
IndexOf(bs, id) == CHOOSE k \in 1..Len(bs) : bs[k].id = id

\* the loop of resolveCollisions over pairs[k..]; the result carries the
\* ball list and a log of every resolveCollision call (the two balls
\* before and after it)
RECURSIVE resolveLoop(_, _, _, _)
resolveLoop(bs, pairs, k, log) ==
    IF k > Len(pairs) THEN [balls |-> bs, log |-> log]
    ELSE LET ia == IndexOf(bs, pairs[k][1])
             ib == IndexOf(bs, pairs[k][2])
             r  == PhysicsSystem_resolveCollision(bs[ia], bs[ib])
             bs1 == [bs EXCEPT ![ia] = r[1], ![ib] = r[2]]
         IN  resolveLoop(bs1, pairs, k + 1,
                 Append(log, [a |-> pairs[k][1], b |-> pairs[k][2],
                              before |-> <<bs[ia], bs[ib]>>, after |-> r]))

PhysicsSystem_resolveCollisions(bs, pairs) == resolveLoop(bs, pairs, 1, <<>>)

(***************************************************************************)
(* Engine.                                                                 *)
(***************************************************************************)
\* RenderingSystem.getCanvasDimensions: the size of the canvas element
dimensions == [width |-> R(200), height |-> R(200)]

wallRestitution == Rat(8, 10)

\* the boundary checks of Engine.update for one ball
boundX(ball) ==
    IF RLt(RSub(ball.position.x, ball.size), Zero)
    THEN [ball EXCEPT !.position.x = ball.size,
                      !.velocity.x = RMul(RNeg(ball.velocity.x), wallRestitution)]
    ELSE IF RGt(RAdd(ball.position.x, ball.size), dimensions.width)
    THEN [ball EXCEPT !.position.x = RSub(dimensions.width, ball.size),
                      !.velocity.x = RMul(RNeg(ball.velocity.x), wallRestitution)]
    ELSE ball
boundY(ball) ==
    IF RLt(RSub(ball.position.y, ball.size), Zero)
    THEN [ball EXCEPT !.position.y = ball.size,
                      !.velocity.y = RMul(RNeg(ball.velocity.y), wallRestitution)]
    ELSE IF RGt(RAdd(ball.position.y, ball.size), dimensions.height)
    THEN [ball EXCEPT !.position.y = RSub(dimensions.height, ball.size),
                      !.velocity.y = RMul(RNeg(ball.velocity.y), wallRestitution)]
    ELSE ball
\* boundary checks that leave out the y axis
boundaryCheck_xOnly(ball) == boundX(ball)

boundaryCheck(ball) == boundY(boundX(ball))

\* this.balls.forEach(ball => ball.update(deltaTime))
integrateAll(bs, deltaTime) == [k \in 1..Len(bs) |-> Ball_update(bs[k], deltaTime)]

\* an update whose boundary checks pass over frozen balls
Engine_update_skipFrozen(bs, deltaTime) ==
    LET integrated == integrateAll(bs, deltaTime)
    IN  [k \in 1..Len(bs) |->
            IF bs[k].isFrozen THEN integrated[k] ELSE boundaryCheck(integrated[k])]

\* Engine.update when not paused
Engine_update(bs, deltaTime) ==
    LET integrated == integrateAll(bs, deltaTime)
    IN  [k \in 1..Len(bs) |-> boundaryCheck(integrated[k])]

\* an update that does not look at isPaused
Engine_updateGate_open(paused, bs, deltaTime) == Engine_update(bs, deltaTime)

\* Engine.update(deltaTime): if (this.isPaused) return;
Engine_updateGate(paused, bs, deltaTime) ==
    IF paused THEN bs ELSE Engine_update(bs, deltaTime)

\* animationFrame: (currentTime - lastUpdateTime) / 1000, capped by
\* Math.min(deltaTime, Config.physics.deltaTime.max)
Engine_frameDeltaTime(currentTime, lastTime) ==
    LET elapsed == Rat(currentTime - lastTime, 1000)
    IN  IF RLt(elapsed, deltaTimeMax) THEN elapsed ELSE deltaTimeMax

(***************************************************************************)
(* Quadtree.  A tree is a function from the paths of its nodes (the root   *)
(* is <<>>, p \o <<i>> is children[i-1] of p) to node records; objects are *)
(* records [id, position, size] and are compared by id, as the object      *)
(* identity they stand for.                                                *)
(***************************************************************************)
Quadtree_constructor(bounds, capacity, maxDepth, depth) ==
    [bounds |-> bounds, capacity |-> capacity, maxDepth |-> maxDepth,
     depth |-> depth, objects |-> <<>>, divided |-> FALSE]

Bounds(x, y, width, height) == [x |-> x, y |-> y, width |-> width, height |-> height]

\* the bounds given to children[i-1] by subdivide
childBounds(b, i) ==
    LET halfWidth  == RDiv(b.width, R(2))
        halfHeight == RDiv(b.height, R(2))
    IN  CASE i = 1 -> Bounds(RAdd(b.x, halfWidth), b.y, halfWidth, halfHeight)
          [] i = 2 -> Bounds(b.x, b.y, halfWidth, halfHeight)
          [] i = 3 -> Bounds(b.x, RAdd(b.y, halfHeight), halfWidth, halfHeight)
          [] i = 4 -> Bounds(RAdd(b.x, halfWidth), RAdd(b.y, halfHeight),
                             halfWidth, halfHeight)

\* a contains that is satisfied by an object that overlaps the bounds
Quadtree_contains_overlap(b, object) ==
    /\ RGe(RAdd(object.position.x, object.size), b.x)
    /\ RLe(RSub(object.position.x, object.size), RAdd(b.x, b.width))
    /\ RGe(RAdd(object.position.y, object.size), b.y)
    /\ RLe(RSub(object.position.y, object.size), RAdd(b.y, b.height))

Quadtree_contains(b, object) ==
    /\ RGe(RSub(object.position.x, object.size), b.x)
    /\ RLe(RAdd(object.position.x, object.size), RAdd(b.x, b.width))
    /\ RGe(RSub(object.position.y, object.size), b.y)
    /\ RLe(RAdd(object.position.y, object.size), RAdd(b.y, b.height))

Quadtree_intersects(b, object) ==
    ~ ( \/ RGt(RSub(object.position.x, object.size), RAdd(b.x, b.width))
        \/ RLt(RAdd(object.position.x, object.size), b.x)
        \/ RGt(RSub(object.position.y, object.size), RAdd(b.y, b.height))
        \/ RLt(RAdd(object.position.y, object.size), b.y) )

IsPrefix(p, q) == Len(p) <= Len(q) /\ SubSeq(q, 1, Len(p)) = p
\* the tree without the nodes strictly below p
Prune(t, p) == [q \in { r \in DOMAIN t : ~(IsPrefix(p, r) /\ r # p) } |-> t[q]]

RECURSIVE Quadtree_insert(_, _, _)
RECURSIVE insertToChildrenFrom(_, _, _, _)
RECURSIVE redistribute(_, _, _, _)

\* the loop of insertToChildren from children[i-1] on
insertToChildrenFrom(t, p, object, i) ==
    IF i > 4 THEN t
    ELSE LET c == p \o <<i>>
         IN  IF Quadtree_contains(t[c].bounds, object)
             THEN insertToChildrenFrom(Quadtree_insert(t, c, object).tree, p, object, i + 1)
             ELSE insertToChildrenFrom(t, p, object, i + 1)

\* insertToChildren has no return statement: the call yields undefined
Quadtree_insertToChildren(t, p, object) == insertToChildrenFrom(t, p, object, 1)

\* the redistribution loop of subdivide over objects[k..]
redistribute(t, p, objects, k) ==
    IF k > Len(objects) THEN t
    ELSE redistribute(Quadtree_insertToChildren(t, p, objects[k]), p, objects, k + 1)

\* a subdivide that leaves the node's own list as it was
Quadtree_subdivide_keepObjects(t, p) ==
    LET n  == t[p]
        t0 == Prune(t, p)
        t1 == [q \in DOMAIN t0 \cup { p \o <<i>> : i \in 1..4 } |->
                 IF q = p THEN [n EXCEPT !.divided = TRUE]
                 ELSE IF q \in DOMAIN t0 THEN t0[q]
                 ELSE Quadtree_constructor(childBounds(n.bounds, q[Len(q)]),
                                           n.capacity, n.maxDepth, n.depth + 1)]
    IN  redistribute(t1, p, n.objects, 1)

Quadtree_subdivide(t, p) ==
    LET n  == t[p]
        t0 == Prune(t, p)
        t1 == [q \in DOMAIN t0 \cup { p \o <<i>> : i \in 1..4 } |->
                 IF q = p THEN [n EXCEPT !.divided = TRUE]
                 ELSE IF q \in DOMAIN t0 THEN t0[q]
                 ELSE Quadtree_constructor(childBounds(n.bounds, q[Len(q)]),
                                           n.capacity, n.maxDepth, n.depth + 1)]
        t2 == redistribute(t1, p, n.objects, 1)
    IN  [t2 EXCEPT ![p].objects = <<>>]

\* an insert that forces into the node only below maxDepth
Quadtree_insert_depthOffByOne(t, p, object) ==
    LET n == t[p]
    IN  IF ~Quadtree_intersects(n.bounds, object)
        THEN [tree |-> t, ret |-> "false"]
        ELSE IF ~n.divided /\ Len(n.objects) < n.capacity
        THEN [tree |-> [t EXCEPT ![p].objects = Append(n.objects, object)],
              ret |-> "true"]
        ELSE IF n.depth > n.maxDepth
        THEN [tree |-> [t EXCEPT ![p].objects = Append(n.objects, object)],
              ret |-> "true"]
        ELSE LET t1 == IF ~n.divided THEN Quadtree_subdivide(t, p) ELSE t
             IN  [tree |-> Quadtree_insertToChildren(t1, p, object),
                  ret |-> "undefined"]

\* the result carries the tree after the call and the value returned:
\* "true", "false" or "undefined"
Quadtree_insert(t, p, object) ==
    LET n == t[p]
    IN  IF ~Quadtree_intersects(n.bounds, object)
        THEN [tree |-> t, ret |-> "false"]
        ELSE IF ~n.divided /\ Len(n.objects) < n.capacity
        THEN [tree |-> [t EXCEPT ![p].objects = Append(n.objects, object)],
              ret |-> "true"]
        ELSE IF n.depth >= n.maxDepth
        THEN [tree |-> [t EXCEPT ![p].objects = Append(n.objects, object)],
              ret |-> "true"]
        ELSE LET t1 == IF ~n.divided THEN Quadtree_subdivide(t, p) ELSE t
             IN  [tree |-> Quadtree_insertToChildren(t1, p, object),
                  ret |-> "undefined"]

RECURSIVE Quadtree_query(_, _, _, _)
RECURSIVE queryChildrenFrom(_, _, _, _, _)
queryChildrenFrom(t, p, object, found, i) ==
    IF i > 4 THEN found
    ELSE queryChildrenFrom(t, p, object,
             Quadtree_query(t, p \o <<i>>, object, found), i + 1)

Quadtree_query(t, p, object, found) ==
    LET n == t[p]
    IN  IF ~Quadtree_intersects(n.bounds, object) THEN found
        ELSE LET f1 == found \o SelectSeq(n.objects, LAMBDA c : c.id # object.id)
             IN  IF n.divided THEN queryChildrenFrom(t, p, object, f1, 1) ELSE f1

\* a clear() that empties the node's own list only
Quadtree_clear_ownList(t, p) == [t EXCEPT ![p].objects = <<>>]

\* clear() of the node at p: the children are cleared and dropped
Quadtree_clear(t, p) ==
    IF t[p].divided
    THEN [Prune(t, p) EXCEPT ![p].objects = <<>>, ![p].divided = FALSE]
    ELSE [t EXCEPT ![p].objects = <<>>]

(***************************************************************************)
(* State.                                                                  *)
(***************************************************************************)
VARIABLES
    balls,           \* Engine.balls / the ball array handed to PhysicsSystem
    nextBallId,      \* Engine.nextBallId
    isPaused,        \* Engine.isPaused
    collisionPairs,  \* PhysicsSystem.collisionPairs, pairs of ball ids
    ticks,           \* number of unpaused Engine.update calls so far
    passes,          \* number of PhysicsSystem calls so far
    lastOp,          \* the operation that led to this state
    lastArg,         \* its argument
    prevBalls,       \* ball list before the last update / physics call
    midBalls,        \* ball list between integration and boundary checks
    resolveLog,      \* the resolveCollision calls of the last physics call
    qt,              \* the quadtree: node records by path
    qInserted,       \* the objects handed to insert on the root since the
                     \* tree was built or cleared
    qLastOp,         \* the quadtree operation that led to this state
    qLastObj,        \* its argument
    qLastRet,        \* the value insert returned
    qFound,          \* the list query returned
    qPrev,           \* the tree before the last insert
    lastUpdateTime   \* Engine.lastUpdateTime, in milliseconds

engineVars == <<balls, nextBallId, isPaused, ticks>>
physVars == <<collisionPairs, passes, resolveLog>>
histVars == <<lastOp, lastArg, prevBalls, midBalls>>
quadVars == <<qt, qInserted, qLastOp, qLastObj, qLastRet, qFound, qPrev>>
frameVars == <<lastUpdateTime>>
vars == <<engineVars, physVars, histVars, quadVars, frameVars>>

Opt(x, y, vx, vy, size, gravity) ==
    [x |-> x, y |-> y, vx |-> vx, vy |-> vy, size |-> size, gravity |-> gravity]

\* the ball options tried by addBall
EngineOptions ==
    { Opt(90, 100, 50, 0, 20, 0),
      Opt(130, 100, -50, 0, 20, 0),
      Opt(8, 100, -30, 0, 0, 0),
      Opt(190, 188, 30, 40, 10, 100),
      Opt(100, 100, 600, 0, 3, 0) }

\* the options.id a caller hands to addBall: none, or the id of the first ball
SuppliedIds == { 0, 1 }

\* the frame times tried: Math.min(elapsed, Config.physics.deltaTime.max)
DeltaTimes == { deltaTimeMax }

\* the root covers the arena
rootBounds == Bounds(R(0), R(0), R(16), R(16))

\* the quadtree before its construction parameters are chosen
QuadIdle ==
    /\ qt = (<<>> :> Quadtree_constructor(rootBounds, 8, 5, 0))
    /\ qInserted = <<>>
    /\ qLastOp = "init"
    /\ qLastObj = <<>>
    /\ qLastRet = "none"
    /\ qFound = <<>>
    /\ qPrev = <<>>

Init ==
    /\ balls = <<>>
    /\ nextBallId = 1
    /\ isPaused = FALSE
    /\ collisionPairs = <<>>
    /\ ticks = 0
    /\ passes = 0
    /\ lastOp = "init"
    /\ lastUpdateTime = 0
    /\ lastArg = <<>>
    /\ prevBalls = <<>>
    /\ midBalls = <<>>
    /\ resolveLog = <<>>
    /\ QuadIdle

\* the history variables after an operation no property looks back at
NoHistory ==
    /\ lastOp' = "other"
    /\ lastArg' = <<>>
    /\ prevBalls' = <<>>
    /\ midBalls' = <<>>

(***************************************************************************)
(* Engine operations.                                                      *)
(***************************************************************************)
\* an addBall that keeps an id the caller put into the options (0: none)
addBallId_supplied(suppliedId, nextId) == IF suppliedId # 0 THEN suppliedId ELSE nextId

\* options.id = this.nextBallId++, whatever options.id was
addBallId(suppliedId, nextId) == nextId

\* addBall(options), options.id being suppliedId (0: the caller gave none)
AddBall(options, suppliedId) ==
    /\ nextBallId <= MaxBalls
    /\ balls' = Append(balls, Ball_constructor(addBallId(suppliedId, nextBallId), options))
    /\ nextBallId' = nextBallId + 1
    /\ NoHistory
    /\ UNCHANGED <<isPaused, ticks, physVars>>
    /\ UNCHANGED <<quadVars, frameVars>>

\* balls.findIndex(ball => ball.id === ballId), 0 standing for -1
findIndex(bs, ballId) ==
    IF \E k \in 1..Len(bs) : bs[k].id = ballId
    THEN CHOOSE k \in 1..Len(bs) :
             bs[k].id = ballId /\ \A m \in 1..(k - 1) : bs[m].id # ballId
    ELSE 0

\* balls.splice(index, 1)
splice(bs, index) == SubSeq(bs, 1, index - 1) \o SubSeq(bs, index + 1, Len(bs))

RemoveBall(ballId) ==
    /\ balls' = IF findIndex(balls, ballId) # 0
                THEN splice(balls, findIndex(balls, ballId))
                ELSE balls
    /\ NoHistory
    /\ UNCHANGED <<nextBallId, isPaused, ticks, physVars>>
    /\ UNCHANGED <<quadVars, frameVars>>

ClearAllBalls ==
    /\ balls' = <<>>
    /\ NoHistory
    /\ UNCHANGED <<nextBallId, isPaused, ticks, physVars>>
    /\ UNCHANGED <<quadVars, frameVars>>

Pause ==
    /\ isPaused' = TRUE
    /\ NoHistory
    /\ UNCHANGED <<balls, nextBallId, ticks, physVars>>
    /\ UNCHANGED <<quadVars, frameVars>>

Resume ==
    /\ isPaused' = FALSE
    /\ NoHistory
    /\ UNCHANGED <<balls, nextBallId, ticks, physVars>>
    /\ UNCHANGED <<quadVars, frameVars>>

TogglePause ==
    /\ isPaused' = ~isPaused
    /\ NoHistory
    /\ UNCHANGED <<balls, nextBallId, ticks, physVars>>
    /\ UNCHANGED <<quadVars, frameVars>>

\* Engine.update(deltaTime), as called from animationFrame
Update(deltaTime) ==
    /\ IF isPaused
       THEN /\ NoHistory
            /\ UNCHANGED <<balls, ticks>>
       ELSE /\ ticks < MaxTicks
            /\ balls' = Engine_update(balls, deltaTime)
            /\ ticks' = ticks + 1
            /\ lastOp' = "update"
            /\ lastArg' = deltaTime
            /\ prevBalls' = balls
            /\ midBalls' = integrateAll(balls, deltaTime)
    /\ UNCHANGED <<nextBallId, isPaused, physVars>>
    /\ UNCHANGED <<quadVars, frameVars>>

\* ball.freeze() on the k-th ball; the call ends in a ReferenceError
Freeze(k) ==
    /\ k \in 1..Len(balls)
    /\ balls' = [balls EXCEPT ![k] = Ball_freeze(balls[k])]
    /\ NoHistory
    /\ UNCHANGED <<nextBallId, isPaused, ticks, physVars>>
    /\ UNCHANGED <<quadVars, frameVars>>

Unfreeze(k) ==
    /\ k \in 1..Len(balls)
    /\ balls' = [balls EXCEPT ![k] = Ball_unfreeze(balls[k])]
    /\ NoHistory
    /\ UNCHANGED <<nextBallId, isPaused, ticks, physVars>>
    /\ UNCHANGED <<quadVars, frameVars>>

Next ==
    \/ \E o \in EngineOptions, suppliedId \in SuppliedIds : AddBall(o, suppliedId)
    \/ \E id \in 1..MaxBalls : RemoveBall(id)
    \/ ClearAllBalls
    \/ Pause
    \/ Resume
    \/ TogglePause
    \/ \E dt \in DeltaTimes : Update(dt)
    \/ \E k \in 1..MaxBalls : Freeze(k)
    \/ \E k \in 1..MaxBalls : Unfreeze(k)

Spec == Init /\ [][Next]_vars

(***************************************************************************)
(* PhysicsSystem operations, on a list of balls built by the caller.       *)
(***************************************************************************)
\* Ball options on the line y = 100 and on the line through (100,100) with
\* direction (3,4).  A list is built from distinct options of one of the two
\* families, in any order, so that the centres of its balls lie on one line.
LineOptions ==
    { Opt(100, 100, 5, 0, 10, 0),
      Opt(105, 100, -5, 3, 10, 0),
      Opt(110, 100, 6, 0, 5, 0),
      Opt(100, 100, -5, 0, 5, 0) }
DiagOptions ==
    { Opt(100, 100, 5, 0, 10, 0),
      Opt(106, 108, -3, 1, 5, 0),
      Opt(112, 116, 0, -2, 10, 0) }

Injective(f) == \A a, b \in DOMAIN f : a # b => f[a] # f[b]

ListsOf(options) ==
    UNION { { [k \in 1..n |-> Ball_constructor(k, f[k])] :
                  f \in { g \in [1..n -> options] : Injective(g) } }
            : n \in 1..MaxPhysBalls }

PhysBallLists == ListsOf(LineOptions) \cup ListsOf(DiagOptions)

PhysInit ==
    /\ balls \in PhysBallLists
    /\ nextBallId = Len(balls) + 1
    /\ isPaused = FALSE
    /\ collisionPairs = <<>>
    /\ ticks = 0
    /\ passes = 0
    /\ lastOp = "init"
    /\ lastUpdateTime = 0
    /\ lastArg = <<>>
    /\ prevBalls = <<>>
    /\ midBalls = <<>>
    /\ resolveLog = <<>>
    /\ QuadIdle

\* The integers of the checker are 32 bits wide: a physics call is explored
\* from the states whose ball positions have denominators up to MaxDen.
InRange(bs) ==
    \A k \in 1..Len(bs) : bs[k].position.x[2] <= MaxDen /\ bs[k].position.y[2] <= MaxDen

\* PhysicsSystem.update(balls, deltaTime, dimensions)
PhysicsUpdate ==
    /\ passes < MaxPasses
    /\ InRange(balls)
    /\ passes' = passes + 1
    /\ IF Len(balls) <= 1
       THEN UNCHANGED <<balls, collisionPairs>> /\ resolveLog' = <<>>
       ELSE LET pairs == PhysicsSystem_generateCollisionPairs(balls)
                res   == PhysicsSystem_resolveCollisions(balls, pairs)
            IN  /\ collisionPairs' = pairs
                /\ balls' = res.balls
                /\ resolveLog' = res.log
    /\ lastOp' = "physicsUpdate"
    /\ lastArg' = <<>>
    /\ prevBalls' = balls
    /\ midBalls' = <<>>
    /\ UNCHANGED <<nextBallId, isPaused, ticks>>
    /\ UNCHANGED <<quadVars, frameVars>>

\* a direct call physics.resolveCollision(balls[i], balls[j], deltaTime); the
\* lists come in every order, so i < j covers both roles of a ball
ResolveCollisionCall(i, j) ==
    /\ passes < MaxPasses
    /\ InRange(balls)
    /\ i \in 1..Len(balls) /\ j \in 1..Len(balls) /\ i < j
    /\ passes' = passes + 1
    /\ LET r == PhysicsSystem_resolveCollision(balls[i], balls[j])
       IN  /\ balls' = [balls EXCEPT ![i] = r[1], ![j] = r[2]]
           /\ resolveLog' = << [a |-> balls[i].id, b |-> balls[j].id,
                                before |-> <<balls[i], balls[j]>>, after |-> r] >>
    /\ lastOp' = "resolveCollision"
    /\ lastArg' = <<balls[i].id, balls[j].id>>
    /\ prevBalls' = balls
    /\ midBalls' = <<>>
    /\ UNCHANGED <<nextBallId, isPaused, ticks, collisionPairs>>
    /\ UNCHANGED <<quadVars, frameVars>>

\* the caller freezes balls of the list before it hands it to the physics
SetupFreeze(k) == passes = 0 /\ Freeze(k)

PhysNext ==
    \/ PhysicsUpdate
    \/ \E i, j \in 1..MaxPhysBalls : ResolveCollisionCall(i, j)
    \/ \E k \in 1..MaxPhysBalls : SetupFreeze(k)

PhysSpec == PhysInit /\ [][PhysNext]_vars

(***************************************************************************)
(* Quadtree operations, on a tree built over the arena.                    *)
(***************************************************************************)
Body(id, x, y, size) == [id |-> id, position |-> VecI(x, y), size |-> R(size)]

\* the objects tried: inside one quadrant, across the centre, across one
\* split line, inside a quadrant of a quadrant, and outside the arena
QBodies ==
    { Body(1, 4, 4, 2),
      Body(2, 8, 8, 2),
      Body(3, 12, 4, 2),
      Body(4, 8, 3, 1),
      Body(5, 3, 3, 1),
      Body(6, -5, -5, 1) }

EngineIdle ==
    /\ balls = <<>>
    /\ nextBallId = 1
    /\ isPaused = FALSE
    /\ collisionPairs = <<>>
    /\ ticks = 0
    /\ passes = 0
    /\ lastOp = "init"
    /\ lastUpdateTime = 0
    /\ lastArg = <<>>
    /\ prevBalls = <<>>
    /\ midBalls = <<>>
    /\ resolveLog = <<>>

\* new Quadtree(bounds, capacity, maxDepth)
QuadInit ==
    /\ EngineIdle
    /\ \E capacity \in 1..MaxCapacity, maxDepth \in 0..MaxTreeDepth :
           qt = (<<>> :> Quadtree_constructor(rootBounds, capacity, maxDepth, 0))
    /\ qInserted = <<>>
    /\ qLastOp = "init"
    /\ qLastObj = <<>>
    /\ qLastRet = "none"
    /\ qFound = <<>>
    /\ qPrev = <<>>

\* root.insert(object), for an object not inserted since the last clear
QInsert(object) ==
    /\ Len(qInserted) < MaxInserts
    /\ \A k \in 1..Len(qInserted) : qInserted[k].id # object.id
    /\ LET r == Quadtree_insert(qt, <<>>, object)
       IN  /\ qt' = r.tree
           /\ qLastRet' = r.ret
    /\ qInserted' = Append(qInserted, object)
    /\ qLastOp' = "insert"
    /\ qLastObj' = object
    /\ qFound' = <<>>
    /\ qPrev' = qt
    /\ UNCHANGED <<engineVars, physVars, histVars, frameVars>>

\* root.query(object)
QQuery(object) ==
    /\ qFound' = Quadtree_query(qt, <<>>, object, <<>>)
    /\ qLastOp' = "query"
    /\ qLastObj' = object
    /\ qLastRet' = "none"
    /\ qPrev' = <<>>
    /\ UNCHANGED <<qt, qInserted, engineVars, physVars, histVars, frameVars>>

\* root.clear()
QClear ==
    /\ qt' = Quadtree_clear(qt, <<>>)
    /\ qInserted' = <<>>
    /\ qLastOp' = "clear"
    /\ qLastObj' = <<>>
    /\ qLastRet' = "none"
    /\ qFound' = <<>>
    /\ qPrev' = qt
    /\ UNCHANGED <<engineVars, physVars, histVars, frameVars>>

QuadNext ==
    \/ \E object \in QBodies : QInsert(object)
    \/ \E object \in QBodies : QQuery(object)
    \/ QClear

QuadSpec == QuadInit /\ [][QuadNext]_vars

\* root.subdivide(), called by a user of the tree
QSubdivide ==
    /\ qt' = Quadtree_subdivide(qt, <<>>)
    /\ qLastOp' = "subdivide"
    /\ qLastObj' = <<>>
    /\ qLastRet' = "none"
    /\ qFound' = <<>>
    /\ qPrev' = qt
    /\ UNCHANGED <<qInserted, engineVars, physVars, histVars, frameVars>>

SubdivideNext ==
    \/ QuadNext
    \/ QSubdivide

SubdivideSpec == QuadInit /\ [][SubdivideNext]_vars

(***************************************************************************)
(* Properties of the quadtree (QuadSpec).                                  *)
(***************************************************************************)
RMax(a, b) == IF RLt(a, b) THEN b ELSE a
RMin(a, b) == IF RLt(a, b) THEN a ELSE b
Sq(a) == RMul(a, a)

\* the circle of b and the bounding square of q share an inner point
CircleOverlapsAABB(b, q) ==
    LET nx == RMax(RSub(q.position.x, q.size), RMin(b.position.x, RAdd(q.position.x, q.size)))
        ny == RMax(RSub(q.position.y, q.size), RMin(b.position.y, RAdd(q.position.y, q.size)))
    IN  RLt(RAdd(Sq(RSub(b.position.x, nx)), Sq(RSub(b.position.y, ny))), Sq(b.size))

\* the ids of the objects held by the nodes of t at or below p
StoredBelow(t, p) ==
    { t[q].objects[k].id : <<q, k>> \in
        { <<q, k>> \in (DOMAIN t) \X (1..(MaxInserts + 1)) :
              IsPrefix(p, q) /\ k <= Len(t[q].objects) } }
FoundIds == { qFound[k].id : k \in 1..Len(qFound) }

\* C1: every object inserted into the tree that lies in the arena and whose
\* circle overlaps the bounding square of the query object, other than the
\* query object itself, is in the list query returns.
C1_QuadtreeCoverage ==
    qLastOp = "query" =>
        \A k \in 1..Len(qInserted) :
            LET b == qInserted[k]
            IN  ( /\ b.id # qLastObj.id
                  /\ Quadtree_contains(rootBounds, b)
                  /\ CircleOverlapsAABB(b, qLastObj) )
                => b.id \in FoundIds

\* the three paths of insert on the root of the tree qPrev
InsertRejects == ~Quadtree_intersects(qPrev[<<>>].bounds, qLastObj)
InsertAppends ==
    /\ ~InsertRejects
    /\ \/ (~qPrev[<<>>].divided /\ Len(qPrev[<<>>].objects) < qPrev[<<>>].capacity)
       \/ qPrev[<<>>].depth >= qPrev[<<>>].maxDepth
InsertDescends == ~InsertRejects /\ ~InsertAppends

\* C9: insert returns false and changes nothing when the object misses the
\* bounds, returns true when it appends the object to the node, and returns
\* true on the subdividing path when the object went into at least one child.
C9_InsertReturnsStored ==
    qLastOp = "insert" =>
        /\ InsertRejects => (qLastRet = "false" /\ qt = qPrev)
        /\ InsertAppends =>
               ( /\ qLastRet = "true"
                 /\ qt[<<>>].objects = Append(qPrev[<<>>].objects, qLastObj) )
        /\ ( /\ InsertDescends
             /\ \E i \in 1..4 : qLastObj.id \in StoredBelow(qt, <<i>>) )
           => qLastRet = "true"

\* C10: an object passed down to the children is stored in every child whose
\* bounds its bounding square intersects, and no object stored in the tree
\* before an insert is missing from it afterwards.
C10_CoveringIndex ==
    qLastOp = "insert" =>
        /\ InsertDescends =>
               \A i \in 1..4 :
                   Quadtree_intersects(qt[<<i>>].bounds, qLastObj)
                       => qLastObj.id \in StoredBelow(qt, <<i>>)
        /\ StoredBelow(qPrev, <<>>) \subseteq StoredBelow(qt, <<>>)

\* C11: subdivide() called on a node that is already divided leaves the
\* children of the node and every object stored below it as they were.
C11_SubdivideGuarded ==
    (qLastOp = "subdivide" /\ qPrev[<<>>].divided) =>
        /\ \A i \in 1..4 : StoredBelow(qt, <<i>>) = StoredBelow(qPrev, <<i>>)
        /\ qt = qPrev

\* C12: clear() leaves a leaf with no objects and no children and with the
\* bounds, capacity, maxDepth and depth it had, which is the tree a
\* constructor call with these parameters builds; a query of the cleared
\* tree finds nothing.
C12_ClearResets ==
    /\ qLastOp = "clear" =>
           /\ DOMAIN qt = { <<>> }
           /\ qt[<<>>].objects = <<>>
           /\ ~qt[<<>>].divided
           /\ qt[<<>>] = Quadtree_constructor(qPrev[<<>>].bounds, qPrev[<<>>].capacity,
                                              qPrev[<<>>].maxDepth, qPrev[<<>>].depth)
    /\ (qLastOp = "query" /\ qInserted = <<>>) => qFound = <<>>

\* clear() has been called on a tree two levels deep that held objects
C12_Witness ==
    /\ qLastOp = "clear"
    /\ qPrev[<<>>].divided
    /\ \E q \in DOMAIN qPrev : Len(q) = 2
    /\ StoredBelow(qPrev, <<>>) # {}
    /\ DOMAIN qt = { <<>> }

(***************************************************************************)
(* Properties of one resolveCollision call, read from the log (PhysSpec).  *)
(***************************************************************************)
\* of an entry e of the log: the vector from A to B before the call, the
\* distance, the unit normal of the claim, and the penetration depth
CentreVector(e) == Vector2D_subtract(e.before[2].position, e.before[1].position)
CentreDistance(e) == Vector2D_magnitude(CentreVector(e))
UnitNormal(e) ==
    IF CentreDistance(e) = Zero THEN VecI(1, 0)
    ELSE Vec(RDiv(CentreVector(e).x, CentreDistance(e)),
             RDiv(CentreVector(e).y, CentreDistance(e)))
Depth(e) == RSub(RAdd(e.before[1].size, e.before[2].size), CentreDistance(e))
TotalMass(e) == RAdd(e.before[1].mass, e.before[2].mass)
Displacement(e, side) ==
    Vector2D_subtract(e.after[side].position, e.before[side].position)
BothFree(e) == ~e.before[1].isFrozen /\ ~e.before[2].isFrozen
Overlapping(e) == RGt(Depth(e), Zero)
\* the vector from A to B after the call: its length is the distance of the
\* centres, sizeA + sizeB when it is that multiple of the unit normal
SeparationAfter(e) == Vector2D_subtract(e.after[2].position, e.after[1].position)
DistanceAfter(e) == Vector2D_distance(e.after[1].position, e.after[2].position)

\* C18: for two overlapping balls that are not frozen, resolveCollision moves
\* A by depth * massB / (massA + massB) along -normal and B by
\* depth * massA / (massA + massB) along +normal; the heavier ball moves less
\* and afterwards the centres are sizeA + sizeB apart, no longer overlapping.
C18_PositionalCorrection ==
    \A k \in 1..Len(resolveLog) :
        LET e == resolveLog[k]
        IN  (BothFree(e) /\ Overlapping(e)) =>
                /\ Displacement(e, 1) =
                       Vector2D_multiply(UnitNormal(e),
                           RNeg(RDiv(RMul(Depth(e), e.before[2].mass), TotalMass(e))))
                /\ Displacement(e, 2) =
                       Vector2D_multiply(UnitNormal(e),
                           RDiv(RMul(Depth(e), e.before[1].mass), TotalMass(e)))
                /\ RGt(e.before[1].mass, e.before[2].mass) =>
                       RLt(RNeg(Vector2D_dot(Displacement(e, 1), UnitNormal(e))),
                           Vector2D_dot(Displacement(e, 2), UnitNormal(e)))
                /\ SeparationAfter(e) =
                       Vector2D_multiply(UnitNormal(e),
                                         RAdd(e.before[1].size, e.before[2].size))

\* a direct call has separated a heavier ballA from a lighter ballB whose
\* centres were apart
C18_Witness ==
    /\ lastOp = "resolveCollision"
    /\ Len(resolveLog) = 1
    /\ BothFree(resolveLog[1]) /\ Overlapping(resolveLog[1])
    /\ CentreDistance(resolveLog[1]) # Zero
    /\ RGt(resolveLog[1].before[1].mass, resolveLog[1].before[2].mass)
    /\ Displacement(resolveLog[1], 1) # VecI(0, 0)
    /\ DistanceAfter(resolveLog[1]) =
           RAdd(resolveLog[1].before[1].size, resolveLog[1].before[2].size)

\* the relative velocity of B to A along the unit normal of e
NormalSpeed(e, balls2) ==
    Vector2D_dot(Vector2D_subtract(balls2[2].velocity, balls2[1].velocity), UnitNormal(e))

\* C19: for two balls that are not frozen and approach each other (relative
\* velocity along the normal <= 0), the relative velocity along the normal
\* after resolveCollision is -0.8 times the one before.
C19_Restitution ==
    \A k \in 1..Len(resolveLog) :
        LET e == resolveLog[k]
        IN  (BothFree(e) /\ RLe(NormalSpeed(e, e.before), Zero)) =>
                NormalSpeed(e, e.after) = RMul(Rat(-8, 10), NormalSpeed(e, e.before))

\* a direct call has turned the closing speed of two balls of equal mass
\* into a separating speed
C19_Witness ==
    /\ lastOp = "resolveCollision"
    /\ Len(resolveLog) = 1
    /\ BothFree(resolveLog[1])
    /\ resolveLog[1].before[1].mass = resolveLog[1].before[2].mass
    /\ RLt(NormalSpeed(resolveLog[1], resolveLog[1].before), Zero)
    /\ RGt(NormalSpeed(resolveLog[1], resolveLog[1].after), Zero)

\* the share of the depth that the positional correction gives to a side
Share(e, side) ==
    RDiv(RMul(Depth(e), e.before[3 - side].mass), TotalMass(e))
Corrected(e) ==
    /\ ~e.before[1].isFrozen =>
           Displacement(e, 1) = Vector2D_multiply(UnitNormal(e), RNeg(Share(e, 1)))
    /\ ~e.before[2].isFrozen =>
           Displacement(e, 2) = Vector2D_multiply(UnitNormal(e), Share(e, 2))

\* C21: for an overlapping pair whose relative velocity along the normal is
\* > 0, resolveCollision leaves the velocities of both balls as they were and
\* still performs the positional correction.
C21_SeparatingNoImpulse ==
    \A k \in 1..Len(resolveLog) :
        LET e == resolveLog[k]
        IN  (Overlapping(e) /\ RGt(NormalSpeed(e, e.before), Zero)) =>
                /\ e.after[1].velocity = e.before[1].velocity
                /\ e.after[2].velocity = e.before[2].velocity
                /\ Corrected(e)

\* a direct call on two free overlapping balls that move apart, with a
\* relative velocity that has a tangential part, has moved both
C21_Witness ==
    /\ lastOp = "resolveCollision"
    /\ Len(resolveLog) = 1
    /\ BothFree(resolveLog[1]) /\ Overlapping(resolveLog[1])
    /\ RGt(NormalSpeed(resolveLog[1], resolveLog[1].before), Zero)
    /\ Displacement(resolveLog[1], 1) # VecI(0, 0)
    /\ Displacement(resolveLog[1], 2) # VecI(0, 0)
    /\ resolveLog[1].after[1].velocity = resolveLog[1].before[1].velocity
    /\ Vector2D_dot(Vector2D_subtract(resolveLog[1].before[2].velocity,
                                      resolveLog[1].before[1].velocity),
                    Vec(RNeg(UnitNormal(resolveLog[1]).y), UnitNormal(resolveLog[1]).x)) # Zero

WellFormed(q) == q[2] > 0
NoNaN(ball) ==
    /\ WellFormed(ball.position.x) /\ WellFormed(ball.position.y)
    /\ WellFormed(ball.velocity.x) /\ WellFormed(ball.velocity.y)

\* C20: for two balls with coincident centres resolveCollision divides by no
\* zero and leaves numbers in every field; the depth is sizeA + sizeB, and
\* two balls that are not frozen move along the x axis only, A towards -x and
\* B towards +x, and end sizeA + sizeB apart.
C20_CoincidentCentres ==
    \A k \in 1..Len(resolveLog) :
        LET e == resolveLog[k]
        IN  CentreDistance(e) = Zero =>
                /\ ~Vector2D_divideThrows(e.before[1].mass)
                /\ ~Vector2D_divideThrows(e.before[2].mass)
                /\ NoNaN(e.after[1]) /\ NoNaN(e.after[2])
                /\ Depth(e) = RAdd(e.before[1].size, e.before[2].size)
                /\ BothFree(e) =>
                       /\ Displacement(e, 1).y = Zero
                       /\ Displacement(e, 2).y = Zero
                       /\ RLt(Displacement(e, 1).x, Zero)
                       /\ RGt(Displacement(e, 2).x, Zero)
                       /\ DistanceAfter(e) = RAdd(e.before[1].size, e.before[2].size)

\* a direct call has pushed apart two free balls with the same centre
C20_Witness ==
    /\ lastOp = "resolveCollision"
    /\ Len(resolveLog) = 1
    /\ BothFree(resolveLog[1])
    /\ CentreDistance(resolveLog[1]) = Zero
    /\ RLt(Displacement(resolveLog[1], 1).x, Zero)
    /\ RGt(Displacement(resolveLog[1], 2).x, Zero)

(***************************************************************************)
(* Collision detection as a function of two balls (DetectSpec).            *)
(***************************************************************************)
\* offsets of the second centre from the first, with rational and
\* irrational distances on both sides of the sums of radii 10, 15 and 20
Offsets == { -12, -9, 0, 5, 9, 10, 11, 12, 16 }
DetectSizes == { 5, 10 }

DetectLists ==
    { << Ball_constructor(1, Opt(100, 100, 0, 0, sa, 0)),
         Ball_constructor(2, Opt(100 + dx, 100 + dy, 0, 0, sb, 0)) >> :
        <<sa, sb, dx, dy>> \in DetectSizes \X DetectSizes \X Offsets \X Offsets }

DetectInit ==
    /\ balls \in DetectLists
    /\ nextBallId = 3
    /\ isPaused = FALSE
    /\ collisionPairs = <<>>
    /\ ticks = 0
    /\ passes = 0
    /\ lastOp = "init"
    /\ lastUpdateTime = 0
    /\ lastArg = <<>>
    /\ prevBalls = <<>>
    /\ midBalls = <<>>
    /\ resolveLog = <<>>
    /\ QuadIdle

\* physics.areColliding(balls[i], balls[j]) and balls[i].isCollidingWith(balls[j])
Detect(i, j) ==
    /\ i \in 1..Len(balls) /\ j \in 1..Len(balls) /\ i # j
    /\ lastOp' = "areColliding"
    /\ lastArg' = <<i, j, PhysicsSystem_areColliding(balls[i], balls[j]),
                    Ball_isCollidingWith(balls[i], balls[j])>>
    /\ UNCHANGED <<engineVars, physVars, prevBalls, midBalls, quadVars, frameVars>>

DetectNext == \E i, j \in 1..2 : Detect(i, j)

DetectSpec == DetectInit /\ [][DetectNext]_vars

\* the squared distance of the centres, and the squared sum of the radii
CentreDistSq(a, b) ==
    RAdd(Sq(RSub(a.position.x, b.position.x)), Sq(RSub(a.position.y, b.position.y)))
RadiusSumSq(a, b) == Sq(RAdd(a.size, b.size))

\* C3: areColliding and isCollidingWith report a pair exactly when the
\* distance of the centres is less than the sum of the sizes; a pair at exactly
\* that distance is not reported.
C3_CollidingIffCloser ==
    lastOp = "areColliding" =>
        LET a == balls[lastArg[1]]
            b == balls[lastArg[2]]
        IN  /\ lastArg[3] <=> RLt(CentreDistSq(a, b), RadiusSumSq(a, b))
            /\ lastArg[4] <=> RLt(CentreDistSq(a, b), RadiusSumSq(a, b))

\* a pair at exactly the sum of the sizes has been tested and not reported
C3_Witness ==
    /\ lastOp = "areColliding"
    /\ CentreDistSq(balls[lastArg[1]], balls[lastArg[2]])
           = RadiusSumSq(balls[lastArg[1]], balls[lastArg[2]])
    /\ ~lastArg[3] /\ ~lastArg[4]

(***************************************************************************)
(* Properties of the tick (Spec).                                          *)
(***************************************************************************)
PairLogged(idA, idB) ==
    \E k \in 1..Len(resolveLog) :
        {resolveLog[k].a, resolveLog[k].b} = {idA, idB}

\* the two balls of the end-to-end scenario
ScenarioBalls ==
    << Ball_constructor(1, Opt(90, 100, 50, 0, 20, 0)),
       Ball_constructor(2, Opt(130, 100, -50, 0, 20, 0)) >>

\* C2: a tick resolves, within the tick, every pair of balls that overlaps
\* after integration and containment; the two balls of the scenario end the
\* tick 40 apart, at (90,100) and (130,100), with x-velocities of reversed sign.
C2_TickResolvesCollisions ==
    lastOp = "update" =>
        /\ \A i, j \in 1..Len(balls) :
               (i < j /\ PhysicsSystem_areColliding(
                             boundaryCheck(midBalls[i]), boundaryCheck(midBalls[j])))
                   => PairLogged(balls[i].id, balls[j].id)
        /\ (prevBalls = ScenarioBalls /\ lastArg = Rat(1, 10)) =>
               /\ balls[1].position = VecI(90, 100)
               /\ balls[2].position = VecI(130, 100)
               /\ RLt(balls[1].velocity.x, Zero)
               /\ RGt(balls[2].velocity.x, Zero)

PenetratesLow(p, size) == RLt(RSub(p, size), Zero)
PenetratesHigh(p, size, dim) == RGt(RAdd(p, size), dim)

\* what containment has to make of one coordinate p with velocity v, given
\* the results q and w
Contained(p, v, size, dim, q, w) ==
    IF PenetratesLow(p, size) \/ PenetratesHigh(p, size, dim)
    THEN /\ w = RMul(RNeg(v), Rat(8, 10))
         /\ q \in {size, RSub(dim, size)}
         /\ ~PenetratesHigh(p, size, dim) => q = size
         /\ ~PenetratesLow(p, size) => q = RSub(dim, size)
    ELSE q = p /\ w = v

\* C8: after the integration of a tick, a coordinate that has left the arena
\* is set to the boundary and its velocity component becomes -v * 0.8; a
\* coordinate that has not is left alone; the axes are handled independently.
\* A ball at x = 5 with size 20 and x-velocity -30 ends at x = 20 with 24.
C8_BoundaryContainment ==
    lastOp = "update" =>
        \A k \in 1..Len(balls) :
            LET m == midBalls[k]
                b == balls[k]
            IN  /\ Contained(m.position.x, m.velocity.x, m.size, dimensions.width,
                             b.position.x, b.velocity.x)
                /\ Contained(m.position.y, m.velocity.y, m.size, dimensions.height,
                             b.position.y, b.velocity.y)
                /\ (m.position.x = R(5) /\ m.size = R(20) /\ m.velocity.x = R(-30))
                       => (b.position.x = R(20) /\ b.velocity.x = R(24))

\* one tick has bounced the ball of the example off the left edge and
\* another ball off two edges at once
C8_Witness ==
    /\ lastOp = "update"
    /\ \E k \in 1..Len(balls) :
           /\ midBalls[k].position.x = R(5) /\ midBalls[k].velocity.x = R(-30)
           /\ balls[k].position.x = R(20) /\ balls[k].velocity.x = R(24)
           /\ balls[k].position.y = midBalls[k].position.y
    /\ \E k \in 1..Len(balls) :
           /\ PenetratesHigh(midBalls[k].position.x, midBalls[k].size, dimensions.width)
           /\ PenetratesHigh(midBalls[k].position.y, midBalls[k].size, dimensions.height)
           /\ balls[k].position = Vec(RSub(dimensions.width, balls[k].size),
                                      RSub(dimensions.height, balls[k].size))

IdsDistinct ==
    \A k, m \in 1..Len(balls) : k # m => balls[k].id # balls[m].id
IdsBelowNext ==
    \A k \in 1..Len(balls) : balls[k].id < nextBallId
HasId(bs, id) == \E k \in 1..Len(bs) : bs[k].id = id

\* a step that gives no ball an id used before: nextBallId does not go
\* down, and a ball whose id was not in the collection has an id that was
\* not below nextBallId
FreshIdsStep ==
    /\ nextBallId' >= nextBallId
    /\ \A k \in 1..Len(balls') :
           ~HasId(balls, balls'[k].id) => balls'[k].id >= nextBallId

\* C14: the balls of the engine have pairwise distinct ids, all smaller than
\* nextBallId, and no addBall gives a ball an id that an earlier ball had,
\* removed or cleared balls included, whatever id the caller supplied.
C14_UniqueStableIds ==
    [](IdsDistinct /\ IdsBelowNext) /\ [][FreshIdsStep]_vars

\* the first ball was removed and a ball added later has the next id
C14_Witness ==
    /\ nextBallId = 3
    /\ Len(balls) = 1
    /\ balls[1].id = 2

\* C15: every ball of the engine has a positive size between minSize and
\* maxSize: a ball with another size is not created.
C15_RadiusBounds ==
    \A k \in 1..Len(balls) :
        /\ RGt(balls[k].size, Zero)
        /\ RLe(R(minSize), balls[k].size)
        /\ RLe(balls[k].size, R(maxSize))

(***************************************************************************)
(* Properties of the physics system (PhysSpec).                            *)
(***************************************************************************)
\* C4: a frozen ball has the same position and velocity after every
\* resolveCollision call and after every resolution pass as before.
C4_FrozenUnchanged ==
    /\ \A k \in 1..Len(resolveLog) :
           \A side \in 1..2 :
               resolveLog[k].before[side].isFrozen =>
                   /\ resolveLog[k].after[side].velocity = resolveLog[k].before[side].velocity
                   /\ resolveLog[k].after[side].position = resolveLog[k].before[side].position
    /\ lastOp \in {"physicsUpdate", "resolveCollision"} =>
           \A i \in 1..Len(balls) :
               prevBalls[i].isFrozen =>
                   /\ balls[i].velocity = prevBalls[i].velocity
                   /\ balls[i].position = prevBalls[i].position

\* the entry e of the log records a call that moved and accelerated the ball
\* on freeSide while the ball on frozenSide was frozen
FrozenCase(e, frozenSide, freeSide) ==
    /\ e.before[frozenSide].isFrozen /\ ~e.before[freeSide].isFrozen
    /\ e.after[freeSide].position # e.before[freeSide].position
    /\ e.after[freeSide].velocity # e.before[freeSide].velocity
C4_Witness ==
    /\ lastOp = "resolveCollision"
    /\ Len(resolveLog) = 1
    /\ FrozenCase(resolveLog[1], 2, 1)
    /\ resolveLog[1].after[2].position = resolveLog[1].before[2].position
    /\ resolveLog[1].after[2].velocity = resolveLog[1].before[2].velocity

\* C5: within PhysicsSystem.update, a pair that does not overlap at the
\* moment resolveCollision is applied to it keeps its positions and velocities.
C5_NonOverlapUntouched ==
    lastOp = "physicsUpdate" =>
        \A k \in 1..Len(resolveLog) :
            ~PhysicsSystem_areColliding(resolveLog[k].before[1], resolveLog[k].before[2])
                => resolveLog[k].after = resolveLog[k].before

PrevBall(id) == prevBalls[IndexOf(prevBalls, id)]

\* C6: after PhysicsSystem.update, collisionPairs holds no ball paired with
\* itself and no pair twice in either order, holds only pairs that overlapped
\* in the list handed to this call, and each of its pairs was resolved once.
C6_NoDoubleResolution ==
    (lastOp = "physicsUpdate" /\ Len(prevBalls) > 1) =>
        /\ \A k \in 1..Len(collisionPairs) : collisionPairs[k][1] # collisionPairs[k][2]
        /\ \A k, m \in 1..Len(collisionPairs) :
               k # m => {collisionPairs[k][1], collisionPairs[k][2]}
                            # {collisionPairs[m][1], collisionPairs[m][2]}
        /\ \A k \in 1..Len(collisionPairs) :
               PhysicsSystem_areColliding(PrevBall(collisionPairs[k][1]),
                                          PrevBall(collisionPairs[k][2]))
        /\ Len(resolveLog) = Len(collisionPairs)
        /\ \A k \in 1..Len(resolveLog) :
               <<resolveLog[k].a, resolveLog[k].b>> = collisionPairs[k]

\* a later call of update has collected and resolved two pairs or more
C6_Witness ==
    /\ lastOp = "physicsUpdate"
    /\ passes = 2
    /\ Len(collisionPairs) >= 2
    /\ Len(resolveLog) = Len(collisionPairs)

\* C7: PhysicsSystem.update puts an overlapping pair with exactly one frozen
\* ball into collisionPairs and resolves it: the frozen ball stays, the other
\* ball is moved out of it.
C7_OneFrozenPairResolved ==
    (lastOp = "physicsUpdate" /\ Len(prevBalls) > 1) =>
        \A i, j \in 1..Len(prevBalls) :
            ( /\ i < j
              /\ prevBalls[i].isFrozen # prevBalls[j].isFrozen
              /\ PhysicsSystem_areColliding(prevBalls[i], prevBalls[j]) )
            => /\ \E k \in 1..Len(collisionPairs) :
                      collisionPairs[k] = <<prevBalls[i].id, prevBalls[j].id>>
               /\ PairLogged(prevBalls[i].id, prevBalls[j].id)

(***************************************************************************)
(* Vector2D operations as functions of the receiver and the argument       *)
(* (VecSpec).  lastArg holds the receiver and the argument, and after a    *)
(* call also whether the call threw and the receiver after it.             *)
(***************************************************************************)
VecCoords == { -30, -4, 0, 3, 40 }
VecScalars == { R(0), R(2), R(-3), Rat(1, 2), Rat(-5, 4) }

VecInit ==
    /\ balls = <<>>
    /\ nextBallId = 1
    /\ isPaused = FALSE
    /\ collisionPairs = <<>>
    /\ ticks = 0
    /\ passes = 0
    /\ lastOp = "init"
    /\ lastUpdateTime = 0
    /\ \E x, y \in VecCoords, scalar \in VecScalars : lastArg = <<VecI(x, y), scalar>>
    /\ prevBalls = <<>>
    /\ midBalls = <<>>
    /\ resolveLog = <<>>
    /\ QuadIdle

\* v.divide(scalar)
VDivide ==
    /\ lastOp = "init"
    /\ lastOp' = "divide"
    /\ lastArg' = << lastArg[1], lastArg[2],
                     Vector2D_divideThrows(lastArg[2]),
                     Vector2D_divide(lastArg[1], lastArg[2]) >>
    /\ UNCHANGED <<engineVars, physVars, prevBalls, midBalls, quadVars, frameVars>>

VecNext == VDivide

VecSpec == VecInit /\ [][VecNext]_vars

\* C13: divide(0) raises an error and leaves x and y of the receiver as they
\* were; a divide by any other scalar raises none.
C13_DivideByZeroThrows ==
    lastOp = "divide" =>
        /\ lastArg[2] = Zero => (lastArg[3] /\ lastArg[4] = lastArg[1])
        /\ lastArg[2] # Zero =>
               /\ ~lastArg[3]
               /\ RMul(lastArg[4].x, lastArg[2]) = lastArg[1].x
               /\ RMul(lastArg[4].y, lastArg[2]) = lastArg[1].y

\* divide(0) has been called on a vector with two non-zero coordinates
C13_Witness ==
    /\ lastOp = "divide"
    /\ lastArg[2] = Zero
    /\ lastArg[1].x # Zero /\ lastArg[1].y # Zero
    /\ lastArg[3]
    /\ lastArg[4] = lastArg[1]

(***************************************************************************)
(* Ball operations on one ball (BallSpec).  The ball is built by the       *)
(* constructor; its acceleration is the one earlier applyForce calls have  *)
(* left.  update is applied once to a ball, and again while its velocity   *)
(* is below the cap, where the arithmetic of the following tick is exact.  *)
(***************************************************************************)
\* <<vx, vy, ax, ay, gravity>>: at rest, below the cap, at the cap, above it
\* along an axis and off the axes, and taken above it by the acceleration or
\* by gravity
BallInputs ==
    { <<0, 0, 0, 0, 0>>,      <<3, 4, 0, 0, 0>>,       <<300, 400, 0, 0, 0>>,
      <<600, 0, 0, 0, 0>>,    <<600, 800, 0, 0, 0>>,   <<0, -501, 0, 0, 0>>,
      <<600, 1, 0, 0, 0>>,    <<-600, -1, 0, 0, 0>>,   <<590, 1, 100, 0, 0>>,
      <<600, 0, 0, 0, 100>>,  <<495, 0, 100, 0, 0>>,   <<3, 4, 100, 50, 90>>,
      <<590, 1, 0, 50, 90>> }

BallOf(in) ==
    [Ball_constructor(1, Opt(100, 100, in[1], in[2], 20, in[5]))
        EXCEPT !.acceleration = VecI(in[3], in[4])]

BallInit ==
    /\ \E in \in BallInputs : balls = << BallOf(in) >>
    /\ nextBallId = 2
    /\ isPaused = FALSE
    /\ collisionPairs = <<>>
    /\ ticks = 0
    /\ passes = 0
    /\ lastOp = "init"
    /\ lastUpdateTime = 0
    /\ lastArg = <<>>
    /\ prevBalls = <<>>
    /\ midBalls = <<>>
    /\ resolveLog = <<>>
    /\ QuadIdle

\* |v|^2 - max^2
CapExcess(v) ==
    RSub(Vector2D_magnitudeSquared(v), RMul(R(maxVelocity), R(maxVelocity)))

\* ball.update(deltaTime)
BallUpdate(deltaTime) ==
    /\ \/ ticks = 0
       \/ ticks < MaxTicks /\ RLt(CapExcess(balls[1].velocity), Zero)
    /\ ticks' = ticks + 1
    /\ balls' = << Ball_update(balls[1], deltaTime) >>
    /\ lastOp' = "ballUpdate"
    /\ lastArg' = deltaTime
    /\ prevBalls' = balls
    /\ UNCHANGED <<nextBallId, isPaused, physVars, midBalls, quadVars, frameVars>>

\* ball.freeze(); lastArg holds whether the call threw
BallFreeze ==
    /\ balls' = << Ball_freeze(balls[1]) >>
    /\ lastOp' = "freeze"
    /\ lastArg' = << Ball_freezeThrows >>
    /\ prevBalls' = balls
    /\ UNCHANGED <<nextBallId, isPaused, ticks, physVars, midBalls, quadVars, frameVars>>

\* ball.unfreeze()
BallUnfreeze ==
    /\ balls' = << Ball_unfreeze(balls[1]) >>
    /\ lastOp' = "unfreeze"
    /\ lastArg' = <<>>
    /\ prevBalls' = balls
    /\ UNCHANGED <<nextBallId, isPaused, ticks, physVars, midBalls, quadVars, frameVars>>

\* the forces a caller applies: accelerations (30,0) and (0,-40) on mass 400
Forces == { VecI(12000, 0), VecI(0, -16000) }
WithinAcceleration(ball) ==
    /\ RLe(RNeg(R(MaxAcceleration)), ball.acceleration.x)
    /\ RLe(ball.acceleration.x, R(MaxAcceleration))
    /\ RLe(RNeg(R(MaxAcceleration)), ball.acceleration.y)
    /\ RLe(ball.acceleration.y, R(MaxAcceleration))

\* ball.applyForce(force), called while the ball is frozen and while the
\* acceleration stays within MaxAcceleration
BallApplyForce(force) ==
    /\ balls[1].isFrozen
    /\ WithinAcceleration(Ball_applyForce(balls[1], force))
    /\ balls' = << Ball_applyForce(balls[1], force) >>
    /\ lastOp' = "applyForce"
    /\ lastArg' = force
    /\ prevBalls' = balls
    /\ UNCHANGED <<nextBallId, isPaused, ticks, physVars, midBalls, quadVars, frameVars>>

BallNext ==
    \/ \E dt \in DeltaTimes : BallUpdate(dt)
    \/ BallFreeze
    \/ BallUnfreeze
    \/ \E force \in Forces : BallApplyForce(force)

BallSpec == BallInit /\ [][BallNext]_vars

\* (max + e)^2 - max^2 for the rounding error e = 1 / SqrtDen of Math.sqrt
CapTolerance ==
    RAdd(RMul(R(2 * maxVelocity), Rat(1, SqrtDen)), RMul(Rat(1, SqrtDen), Rat(1, SqrtDen)))
Advanced(before, after, deltaTime) ==
    after.position = Vector2D_add(before.position,
                                  Vector2D_multiply(after.velocity, deltaTime))

C17_FreezeCompletes ==
    lastOp = "freeze" =>
        /\ ~lastArg[1]
        /\ balls[1].isFrozen
        /\ balls[1].velocity = VecI(0, 0)
        /\ balls[1].acceleration = VecI(0, 0)

\* the velocity of ball b after v = v + a * dt with acceleration.y = gravity
GravityStep(b, deltaTime) ==
    Vec(RAdd(b.velocity.x, RMul(b.acceleration.x, deltaTime)),
        RAdd(b.velocity.y, RMul(b.gravity, deltaTime)))

\* C22: update on a ball that is not frozen and has gravity # 0 integrates
\* with acceleration.y = gravity, whatever y-acceleration applyForce had
\* left, and returns with acceleration (0,0); where the cap does not cut the
\* velocity, velocity.y has grown by gravity * dt in the tick.
C22_GravityReapplied ==
    ( /\ lastOp = "ballUpdate"
      /\ ~prevBalls[1].isFrozen
      /\ prevBalls[1].gravity # Zero ) =>
        /\ balls[1].acceleration = VecI(0, 0)
        /\ RLe(CapExcess(GravityStep(prevBalls[1], lastArg)), Zero) =>
               /\ balls[1].velocity = GravityStep(prevBalls[1], lastArg)
               /\ RSub(balls[1].velocity.y, prevBalls[1].velocity.y) =
                      RMul(prevBalls[1].gravity, lastArg)

\* the ball built with velocity (3,4), acceleration (100,50) and gravity 90
\* after two ticks of 0.1: velocity.y has grown by 9 in each
C22_Witness ==
    /\ lastOp = "ballUpdate"
    /\ ticks = 2
    /\ ~balls[1].isFrozen
    /\ balls[1].gravity = R(90)
    /\ prevBalls[1].velocity = VecI(13, 13)
    /\ balls[1].velocity = VecI(13, 22)
    /\ balls[1].acceleration = VecI(0, 0)

\* C23: update on a frozen ball leaves its position, velocity and
\* acceleration as they were, so an acceleration that applyForce added while
\* the ball was frozen is kept; unfreeze keeps it too, and it is there at the
\* first update after unfreeze.
C23_FrozenNotIntegrated ==
    /\ (lastOp = "ballUpdate" /\ prevBalls[1].isFrozen) =>
           /\ balls[1].position = prevBalls[1].position
           /\ balls[1].velocity = prevBalls[1].velocity
           /\ balls[1].acceleration = prevBalls[1].acceleration
    /\ lastOp = "unfreeze" =>
           balls[1].acceleration = prevBalls[1].acceleration

\* a frozen ball to which forces were applied, after an update: the
\* acceleration (30,-40) comes from applyForce alone
C23_Witness ==
    /\ lastOp = "ballUpdate"
    /\ prevBalls[1].isFrozen
    /\ balls[1].isFrozen
    /\ balls[1].acceleration = VecI(30, -40)
    /\ balls[1].velocity = VecI(0, 0)
    /\ balls[1].position = prevBalls[1].position

(***************************************************************************)
(* The animation loop: an engine that holds balls, frames that arrive at   *)
(* the times performance.now() reports, and pause / resume between them.   *)
(***************************************************************************)
\* the milliseconds between two frames: below and above deltaTime.max
FrameGaps == { 50, 150 }

\* balls that stay clear of the walls for the frames explored
FrameOptions == << Opt(100, 100, 30, 40, 10, 0), Opt(60, 60, -20, 0, 10, 100) >>

FrameInit ==
    /\ \E n \in 1..Len(FrameOptions) :
           balls = [k \in 1..n |-> Ball_constructor(k, FrameOptions[k])]
    /\ nextBallId = Len(balls) + 1
    /\ isPaused = FALSE
    /\ collisionPairs = <<>>
    /\ ticks = 0
    /\ passes = 0
    /\ lastOp = "init"
    /\ lastUpdateTime = 0
    /\ lastArg = <<>>
    /\ prevBalls = <<>>
    /\ midBalls = <<>>
    /\ resolveLog = <<>>
    /\ QuadIdle

\* Engine.animationFrame() at performance.now() = currentTime; requestAnimationFrame
\* leaves the next frame enabled
AnimationFrame(currentTime) ==
    LET deltaTime == Engine_frameDeltaTime(currentTime, lastUpdateTime)
    IN  /\ currentTime <= MaxClock
        /\ balls' = Engine_updateGate(isPaused, balls, deltaTime)
        /\ ticks' = IF isPaused THEN ticks ELSE ticks + 1
        /\ lastUpdateTime' = currentTime
        /\ lastOp' = "animationFrame"
        /\ lastArg' = [paused |-> isPaused, deltaTime |-> deltaTime]
        /\ prevBalls' = balls
        /\ midBalls' = <<>>
        /\ UNCHANGED <<nextBallId, isPaused, physVars, quadVars>>

FrameNext ==
    \/ \E gap \in FrameGaps : AnimationFrame(lastUpdateTime + gap)
    \/ Pause
    \/ Resume
    \/ TogglePause

FrameSpec == FrameInit /\ [][FrameNext]_vars

\* position, velocity and acceleration of every ball are those of bs
SameMotion(bs, cs) ==
    /\ Len(bs) = Len(cs)
    /\ \A k \in 1..Len(bs) :
           /\ bs[k].position = cs[k].position
           /\ bs[k].velocity = cs[k].velocity
           /\ bs[k].acceleration = cs[k].acceleration

\* C24: while isPaused no step changes the position, velocity or
\* acceleration of a ball, although frames keep arriving and each one moves
\* lastUpdateTime on; a frame of the running engine integrates every ball
\* with a time step of at most Config.physics.deltaTime.max, whatever time
\* has gone by.
C24_PauseGatesTick ==
    /\ [][isPaused => SameMotion(balls, balls')]_vars
    /\ [](lastOp = "animationFrame" =>
            IF lastArg.paused
            THEN SameMotion(prevBalls, balls)
            ELSE /\ RLe(lastArg.deltaTime, deltaTimeMax)
                 /\ \A k \in 1..Len(balls) :
                        Advanced(prevBalls[k], balls[k], lastArg.deltaTime))

\* the first integrating frame of an engine whose clock stands at 350 ms or
\* more: the frames before it found the engine paused, this one arrives
\* 150 ms after the last and integrates 0.1 s
C24_Witness ==
    /\ lastOp = "animationFrame"
    /\ ~lastArg.paused
    /\ ticks = 1
    /\ lastUpdateTime >= 350
    /\ lastArg.deltaTime = deltaTimeMax
    /\ balls[1].position = VecI(103, 104)
    /\ prevBalls[1].position = VecI(100, 100)

(***************************************************************************)
(* Shape of the tree (QuadSpec).                                           *)
(***************************************************************************)
\* the node at p holds the object with this id in its own list
Holds(t, p, id) == \E k \in 1..Len(t[p].objects) : t[p].objects[k].id = id
\* p has children in t
HasChildren(t, p) == \E i \in 1..4 : (p \o <<i>>) \in DOMAIN t
\* insert has been called on the node at p with object b: on the root by the
\* caller, on another node by insertToChildren of its parent, which passes on
\* what the child contains; b passes insert's intersects test
InsertedInto(t, p, b) ==
    IF p = <<>> THEN Quadtree_intersects(t[p].bounds, b)
    ELSE Quadtree_contains(t[p].bounds, b)

\* C25: in a tree whose root has depth 0 no node is deeper than maxDepth; a
\* node at depth maxDepth is not divided and has no children, and every
\* object inserted into it is in its own list, however many there are.
C25_DepthCap ==
    \A p \in DOMAIN qt :
        LET n == qt[p]
        IN  /\ n.depth = Len(p)
            /\ n.depth <= n.maxDepth
            /\ n.depth = n.maxDepth =>
                   /\ ~n.divided
                   /\ ~HasChildren(qt, p)
                   /\ \A k \in 1..Len(qInserted) :
                          InsertedInto(qt, p, qInserted[k]) =>
                              Holds(qt, p, qInserted[k].id)

\* a node below the root at depth maxDepth that holds more objects than
\* capacity after an insert
C25_Witness ==
    /\ qLastOp = "insert"
    /\ \E p \in DOMAIN qt :
           /\ qt[p].depth = qt[p].maxDepth
           /\ qt[p].depth > 0
           /\ Len(qt[p].objects) > qt[p].capacity
           /\ ~qt[p].divided

\* the four equal quadrants of the rectangle b
Quadrants(b) ==
    { Bounds(x, y, RDiv(b.width, R(2)), RDiv(b.height, R(2))) :
        x \in { b.x, RAdd(b.x, RDiv(b.width, R(2))) },
        y \in { b.y, RAdd(b.y, RDiv(b.height, R(2))) } }
IsLeaf(t, p) == ~t[p].divided /\ ~HasChildren(t, p)
IsInternal(t, p) ==
    /\ t[p].divided
    /\ \A i \in 1..4 : (p \o <<i>>) \in DOMAIN t
    /\ \A i \in 1..4 : t[p \o <<i>>].depth = t[p].depth + 1
    /\ { t[p \o <<i>>].bounds : i \in 1..4 } = Quadrants(t[p].bounds)
    /\ \A i, j \in 1..4 : i # j => t[p \o <<i>>].bounds # t[p \o <<j>>].bounds

\* C26: every node of the tree is a leaf, not divided and without children,
\* or an internal node, divided with four children one level deeper whose
\* bounds are the four equal quadrants of its own; the own list of an
\* internal node is empty.
C26_NodeShape ==
    \A p \in DOMAIN qt :
        /\ IsLeaf(qt, p) \/ IsInternal(qt, p)
        /\ IsInternal(qt, p) => qt[p].objects = <<>>
        /\ p # <<>> => SubSeq(p, 1, Len(p) - 1) \in DOMAIN qt

\* an insert has left a tree with an internal node below an internal root,
\* and objects in leaves
C26_Witness ==
    /\ qLastOp = "insert"
    /\ IsInternal(qt, <<>>)
    /\ \E i \in 1..4 :
           /\ IsInternal(qt, <<i>>)
           /\ \E j \in 1..4 : IsLeaf(qt, <<i, j>>) /\ qt[<<i, j>>].objects # <<>>

\* the places (node, index) where the tree holds the object with this id
Places(t, id) ==
    UNION { { <<q, k>> : k \in { j \in 1..Len(t[q].objects) : t[q].objects[j].id = id } } :
              q \in DOMAIN t }

MomentumChange(e, side) ==
    Vector2D_multiply(
        Vector2D_subtract(e.after[side].velocity, e.before[side].velocity),
        e.before[side].mass)

\* C27: resolveCollision on two balls that are not frozen leaves
\* massA * velocityA + massB * velocityB as it was, on both axes: what ball A
\* loses ball B gains.
C27_MomentumConserved ==
    \A k \in 1..Len(resolveLog) :
        LET e == resolveLog[k]
        IN  BothFree(e) =>
                Vector2D_add(MomentumChange(e, 1), MomentumChange(e, 2)) = VecI(0, 0)

\* a call on two free balls of different mass that has changed both
\* velocities, along the normal and along the tangent
C27_Witness ==
    /\ lastOp = "resolveCollision"
    /\ Len(resolveLog) = 1
    /\ BothFree(resolveLog[1])
    /\ resolveLog[1].before[1].mass # resolveLog[1].before[2].mass
    /\ MomentumChange(resolveLog[1], 1).x # Zero
    /\ MomentumChange(resolveLog[1], 1).y # Zero
    /\ MomentumChange(resolveLog[1], 2) # VecI(0, 0)

(***************************************************************************)
(* The arena after a tick (Spec).                                          *)
(***************************************************************************)
\* the diameter of the ball fits the canvas on both axes
FitsCanvas(ball) ==
    /\ RLe(RMul(R(2), ball.size), dimensions.width)
    /\ RLe(RMul(R(2), ball.size), dimensions.height)
\* the circle of the ball lies inside the canvas
InsideArena(ball) ==
    /\ RLe(ball.size, ball.position.x)
    /\ RLe(ball.position.x, RSub(dimensions.width, ball.size))
    /\ RLe(ball.size, ball.position.y)
    /\ RLe(ball.position.y, RSub(dimensions.height, ball.size))

\* C29: when an unpaused Engine.update has ended, every ball whose diameter
\* fits the canvas, frozen or not, has size <= x <= width - size and
\* size <= y <= height - size.
C29_InsideArenaAfterTick ==
    lastOp = "update" =>
        \A k \in 1..Len(balls) : FitsCanvas(balls[k]) => InsideArena(balls[k])

\* a tick has moved a frozen ball that was added across the left edge into
\* the arena, next to a ball that is not frozen
C29_Witness ==
    /\ lastOp = "update"
    /\ \E k \in 1..Len(balls) :
           /\ balls[k].isFrozen
           /\ FitsCanvas(balls[k])
           /\ ~InsideArena(prevBalls[k])
           /\ InsideArena(balls[k])
    /\ \E k \in 1..Len(balls) : ~balls[k].isFrozen /\ InsideArena(balls[k])

====
